---- MODULE Spec2Model ----
(***************************************************************************)
(* Ash-spider: a suite of three crawlers (idealo, kleineskraftwerk,        *)
(* priwatt) and the menu program that runs them.                           *)
(*                                                                         *)
(* Text is modelled as a sequence of one-character strings, so that the    *)
(* regular expressions and string methods of the source are computed       *)
(* character by character.  The no-break space U+00A0 is the token "nbsp". *)
(***************************************************************************)
EXTENDS Integers, Sequences, FiniteSets, TLC

(***************************************************************************)
(* Bounds of the model.                                                    *)
(***************************************************************************)
NumUrls   == 2   \* listing URLs of a catalog crawler (the source lists 6 and 4)
MaxBlocks == 2   \* product blocks on one listing page
MaxItems  == 3   \* records found by the listing stage of one run

(***************************************************************************)
(* Characters and the string methods the crawlers use.                     *)
(***************************************************************************)
Digits == {"0", "1", "2", "3", "4", "5", "6", "7", "8", "9"}

DigitVal(c) ==
  CASE c = "0" -> 0 [] c = "1" -> 1 [] c = "2" -> 2 [] c = "3" -> 3
    [] c = "4" -> 4 [] c = "5" -> 5 [] c = "6" -> 6 [] c = "7" -> 7
    [] c = "8" -> 8 [] c = "9" -> 9

DigitChar(n) ==
  CASE n = 0 -> "0" [] n = 1 -> "1" [] n = 2 -> "2" [] n = 3 -> "3"
    [] n = 4 -> "4" [] n = 5 -> "5" [] n = 6 -> "6" [] n = 7 -> "7"
    [] n = 8 -> "8" [] n = 9 -> "9"

\* str.isspace / the regex class \s: blank and U+00A0 are both white space
Whitespace == {" ", "nbsp"}

IsDigit(c) == c \in Digits

RECURSIVE Pow10(_)
Pow10(n) == IF n = 0 THEN 1 ELSE 10 * Pow10(n - 1)

\* s[from..] ; empty when from is past the end
Drop(s, n) == SubSeq(s, n + 1, Len(s))

RECURSIVE LStrip(_)
LStrip(s) ==
  IF s # << >> /\ Head(s) \in Whitespace THEN LStrip(Tail(s)) ELSE s

RECURSIVE RStrip(_)
RStrip(s) ==
  IF s # << >> /\ s[Len(s)] \in Whitespace
    THEN RStrip(SubSeq(s, 1, Len(s) - 1))
    ELSE s

\* str.strip()
Strip(s) == RStrip(LStrip(s))

\* str.replace(c, "")
Remove(s, c) == SelectSeq(s, LAMBDA x : x # c)

\* str.replace(c, d) for single characters
Replace(s, c, d) == [i \in 1..Len(s) |-> IF s[i] = c THEN d ELSE s[i]]

Contains(s, c) == \E i \in 1..Len(s) : s[i] = c

RECURSIVE DigitsToInt(_)
DigitsToInt(s) ==
  IF s = << >> THEN 0
  ELSE 10 * DigitsToInt(SubSeq(s, 1, Len(s) - 1)) + DigitVal(s[Len(s)])

RECURSIVE IntToDigits(_)
IntToDigits(n) ==
  IF n < 10 THEN << DigitChar(n) >>
  ELSE Append(IntToDigits(n \div 10), DigitChar(n % 10))

(***************************************************************************)
(* decimal.Decimal(text).quantize(Decimal('0.01')) as the crawlers call    *)
(* it.  The texts that reach it hold only digits and dots.  Decimal()      *)
(* raises InvalidOperation unless the text is digits with at most one dot  *)
(* and at least one digit; quantize raises it when the result needs more   *)
(* than the context precision of 28 digits.  Rounding is ROUND_HALF_EVEN.  *)
(***************************************************************************)
DecimalValid(s) ==
  /\ \A i \in 1..Len(s) : IsDigit(s[i]) \/ s[i] = "."
  /\ Cardinality({i \in 1..Len(s) : s[i] = "."}) <= 1
  /\ \E i \in 1..Len(s) : IsDigit(s[i])

DotPos(s) == IF Contains(s, ".") THEN CHOOSE i \in 1..Len(s) : s[i] = "." ELSE Len(s) + 1

\* the value of a valid text in hundredths, rounded half to even
DecimalCents(s) ==
  LET d     == DotPos(s)
      ip    == SubSeq(s, 1, d - 1)
      fp    == Drop(s, d)
      n     == DigitsToInt(ip \o fp)
      scale == Len(fp)
  IN  IF scale <= 2 THEN n * Pow10(2 - scale)
      ELSE LET unit == Pow10(scale - 2)
               q    == n \div unit
               r    == n % unit
           IN  IF 2 * r > unit \/ (2 * r = unit /\ q % 2 = 1) THEN q + 1 ELSE q

\* str() of a Decimal with exponent -2
FormatCents(c) ==
  IntToDigits(c \div 100) \o << ".", DigitChar((c % 100) \div 10), DigitChar(c % 10) >>

QuantizeRaises(s) == ~DecimalValid(s) \/ Len(IntToDigits(DecimalCents(s))) > 28

\* f"{Decimal(s).quantize(Decimal('0.01'))}" with the caller's fallback value
\* for InvalidOperation
QuantizeOr(s, fallback) ==
  IF QuantizeRaises(s) THEN fallback ELSE FormatCents(DecimalCents(s))

(***************************************************************************)
(* Price normalisation of the two catalog crawlers.                        *)
(***************************************************************************)
\* re.sub(r"^\s*ab\s*", "", price) where the two letters of the prefix are
\* taken from the given sets (IGNORECASE or an explicit alternation)
StripAbPrefix(s, prefixes) ==
  LET t == LStrip(s)
  IN  IF Len(t) >= 2 /\ << t[1], t[2] >> \in prefixes
        THEN LStrip(Drop(t, 2))
        ELSE s

\* the first index k >= i whose character is neither a digit nor a dot
RECURSIVE RunEnd(_, _)
RunEnd(s, i) ==
  IF i > Len(s) THEN i
  ELSE IF IsDigit(s[i]) \/ s[i] = "." THEN RunEnd(s, i + 1) ELSE i

\* does r"(\d+[\d\.]*,\d{2})" match at position i
CommaMatchAt(s, i) ==
  LET k == RunEnd(s, i)
  IN  /\ IsDigit(s[i])
      /\ k + 2 <= Len(s)
      /\ s[k] = ","
      /\ IsDigit(s[k + 1])
      /\ IsDigit(s[k + 2])

\* re.search(r"(\d+[\d\.]*,\d{2})", s).group(1), or << >> when there is no match
DecimalCommaMatch(s) ==
  LET starts == {i \in 1..Len(s) : CommaMatchAt(s, i)}
  IN  IF starts = {} THEN << >>
      ELSE LET i == CHOOSE x \in starts : \A y \in starts : x <= y
           IN  SubSeq(s, i, RunEnd(s, i) + 2)

RECURSIVE DigitRunEnd(_, _)
DigitRunEnd(s, i) ==
  IF i <= Len(s) /\ IsDigit(s[i]) THEN DigitRunEnd(s, i + 1) ELSE i

\* re.search(r"\d+", s).group(0), or << >> when there is no match
FirstDigitRun(s) ==
  LET starts == {i \in 1..Len(s) : IsDigit(s[i])}
  IN  IF starts = {} THEN << >>
      ELSE LET i == CHOOSE x \in starts : \A y \in starts : x <= y
           IN  SubSeq(s, i, DigitRunEnd(s, i) - 1)

\* kleineskraftwerk.clean_price_text
clean_price_text_kk(price) ==
  IF price = << >> THEN << >>
  ELSE LET p1 == StripAbPrefix(price, {"a", "A"} \X {"b", "B"})
           p2 == Strip(Remove(p1, "€"))
           m  == DecimalCommaMatch(p2)
           normalized == Replace(Remove(m, "."), ",", ".")
           digits == FirstDigitRun(p2)
       IN  IF m # << >> THEN QuantizeOr(normalized, normalized)
           ELSE IF digits # << >> THEN QuantizeOr(digits, digits)
           ELSE p2

\* priwatt.clean_price_text
clean_price_text_pw(price) ==
  IF price = << >> THEN << >>
  ELSE LET p1 == StripAbPrefix(price, {<< "a", "b" >>, << "A", "b" >>, << "A", "B" >>})
           p2 == Strip(Replace(Remove(p1, "€"), "nbsp", " "))
           numeric_part == SelectSeq(p2, LAMBDA c : IsDigit(c) \/ c = "." \/ c = ",")
           normalized ==
             IF Contains(numeric_part, ",")
               THEN Replace(Remove(numeric_part, "."), ",", ".")
               ELSE Remove(numeric_part, ".")
       IN  IF numeric_part = << >> THEN << >>
           ELSE QuantizeOr(normalized, normalized)

clean_price_text(crawler, price) ==
  IF crawler = "priwatt" THEN clean_price_text_pw(price) ELSE clean_price_text_kk(price)

(***************************************************************************)
(* price_to_float and compute_discount_rate.  A float is modelled by the   *)
(* exact number of hundredths it stands for: the texts that parse are      *)
(* digits with at most one dot.  NoFloat stands for None.                  *)
(***************************************************************************)
NoFloat == -1

\* float(text) in hundredths, for a text of digits and at most one dot whose
\* value has at most two fractional digits; None for any other text
FloatCents(s) ==
  IF DecimalValid(s) /\ Len(Drop(s, DotPos(s))) <= 2 THEN DecimalCents(s) ELSE NoFloat

\* kleineskraftwerk.price_to_float: dots are removed before float()
price_to_float_kk(price) ==
  IF price = << >> THEN NoFloat
  ELSE FloatCents(Replace(Remove(price, "."), ",", "."))

\* priwatt.price_to_float
price_to_float_pw(price) ==
  IF price = << >> THEN NoFloat ELSE FloatCents(price)

price_to_float(crawler, price) ==
  IF crawler = "priwatt" THEN price_to_float_pw(price) ELSE price_to_float_kk(price)

RECURSIVE GCD(_, _)
GCD(a, b) == IF b = 0 THEN a ELSE GCD(b, a % b)

\* << quotient, remainder >> of n * 10^k divided by d, one digit at a time
RECURSIVE DivScaled(_, _, _)
DivScaled(n, d, k) ==
  IF k = 0 THEN << n \div d, n % d >>
  ELSE LET p == DivScaled(n, d, k - 1)
       IN  << p[1] * 10 + (p[2] * 10) \div d, (p[2] * 10) % d >>

\* the quotient cut off instead of rounded
RoundDivTruncates(n, d, k) == DivScaled(n, d, k)[1]

\* n * 10^k / d rounded half to even, for n >= 0 and d > 0
RoundDiv(n, d, k) ==
  LET g  == GCD(n, d)
      qr == DivScaled(n \div g, d \div g, k)
  IN  IF 2 * qr[2] > d \div g \/ (2 * qr[2] = d \div g /\ qr[1] % 2 = 1)
        THEN qr[1] + 1
        ELSE qr[1]

\* f"{rate:.2f}%" for rate = (orig_val - disc_val) / orig_val * 100
compute_discount_rate(crawler, original_price, discount_price) ==
  LET orig_val == price_to_float(crawler, original_price)
      disc_val == price_to_float(crawler, discount_price)
  IN  IF orig_val = NoFloat \/ disc_val = NoFloat \/ orig_val <= 0 THEN << >>
      ELSE LET diff == orig_val - disc_val
               mag  == IF diff < 0 THEN 0 - diff ELSE diff
               h    == RoundDiv(mag, orig_val, 4)
           IN  (IF diff < 0 THEN << "-" >> ELSE << >>) \o FormatCents(h) \o << "%" >>

(***************************************************************************)
(* Listing pages of the catalog crawlers.  A listing page is the sequence  *)
(* of its product blocks (div.text-wrapper / a.block[href]) in document    *)
(* order; a block has a title element or not, the element's text and the   *)
(* href of its link.  Hrefs are root-relative, so urljoin gives the same   *)
(* URL on every listing page; an empty href gives the listing URL itself.  *)
(***************************************************************************)
AllUrls == << "/c1", "/c2", "/c3", "/c4" >>

URLS == SubSeq(AllUrls, 1, NumUrls)

urljoin(base_url, href) == IF href = "" THEN base_url ELSE href

RECURSIVE Flatten(_)
Flatten(ss) == IF ss = << >> THEN << >> ELSE Head(ss) \o Flatten(Tail(ss))

\* kleineskraftwerk.parse_products
parse_products_kk(html, base_url) ==
  LET kept == SelectSeq(html, LAMBDA w : w.hasTitle /\ Strip(w.title) # << >>)
      Rec(w) == [title          |-> Strip(w.title),
                 detail_url     |-> urljoin(base_url, w.href),
                 original_price |-> << >>,
                 discount_price |-> << >>,
                 discount_rate  |-> << >>,
                 source_url     |-> ""]
  IN  [i \in 1..Len(kept) |-> Rec(kept[i])]

\* priwatt.parse_products (its records have no discount_rate key yet; every
\* reader uses .get(..., ""), which the empty text stands for)
parse_products_pw(html, base_url) ==
  LET kept == SelectSeq(html, LAMBDA a : a.hasTitle)
      Rec(a) == [title          |-> Strip(a.title),
                 detail_url     |-> urljoin(base_url, a.href),
                 original_price |-> << >>,
                 discount_price |-> << >>,
                 discount_rate  |-> << >>,
                 source_url     |-> ""]
  IN  [i \in 1..Len(kept) |-> Rec(kept[i])]

parse_products(crawler, html, base_url) ==
  IF crawler = "priwatt" THEN parse_products_pw(html, base_url)
  ELSE parse_products_kk(html, base_url)

(***************************************************************************)
(* Detail pages of the catalog crawlers.                                   *)
(*   kleineskraftwerk: whether a price block (span.price) exists and the   *)
(*   span.amount elements inside it in document order, each inside a del,  *)
(*   inside an ins, or in neither ("none").                                *)
(*   priwatt: the current-price element and the struck-through element,    *)
(*   each present or not, with its text.                                   *)
(***************************************************************************)
FirstWith(amounts, wrap) ==
  LET idx == {i \in 1..Len(amounts) : amounts[i].wrap = wrap}
  IN  IF idx = {} THEN 0 ELSE CHOOSE i \in idx : \A j \in idx : i <= j

\* kleineskraftwerk.extract_prices_from_detail: << original, discount >>
extract_prices_from_detail_kk(html) ==
  IF ~html.block THEN << << >>, << >> >>
  ELSE
    LET am     == html.amounts
        del_i  == FirstWith(am, "del")
        ins_i  == FirstWith(am, "ins")
        orig0  == IF del_i # 0 THEN clean_price_text_kk(Strip(am[del_i].text)) ELSE << >>
        disc0  == IF ins_i # 0 THEN clean_price_text_kk(Strip(am[ins_i].text)) ELSE << >>
        disc1  == IF disc0 = << >> /\ am # << >>
                    THEN clean_price_text_kk(Strip(am[1].text))
                    ELSE disc0
        amounts == SelectSeq([i \in 1..Len(am) |-> clean_price_text_kk(Strip(am[i].text))],
                             LAMBDA c : c # << >>)
    IN  IF orig0 # << >> THEN << orig0, disc1 >>
        ELSE IF Len(amounts) >= 2
          THEN << amounts[1], IF disc1 # << >> THEN disc1 ELSE amounts[2] >>
        ELSE IF amounts # << >>
          THEN << amounts[1], IF disc1 # << >> THEN disc1 ELSE amounts[1] >>
        ELSE << orig0, disc1 >>

\* priwatt.extract_prices_from_detail: << original, discount >>
extract_prices_from_detail_pw(html) ==
  LET disc0 == IF html.hasDiscount THEN clean_price_text_pw(Strip(html.discountText)) ELSE << >>
      orig0 == IF html.hasOriginal THEN clean_price_text_pw(Strip(html.originalText)) ELSE << >>
      orig1 == IF orig0 = << >> /\ disc0 # << >> THEN disc0 ELSE orig0
      disc1 == IF disc0 = << >> /\ orig1 # << >> THEN orig1 ELSE disc0
  IN  << orig1, disc1 >>

extract_prices_from_detail(crawler, html) ==
  IF crawler = "priwatt" THEN extract_prices_from_detail_pw(html)
  ELSE extract_prices_from_detail_kk(html)

\* kleineskraftwerk.py 199-202: a missing price takes the value of the other
\* one (priwatt has already done so inside extract_prices_from_detail)
FillMissingNever(crawler, prices) == prices

FillMissing(crawler, prices) ==
  IF crawler = "priwatt" THEN prices
  ELSE IF prices[1] = << >> THEN << prices[2], prices[2] >>
  ELSE IF prices[2] = << >> THEN << prices[1], prices[1] >>
  ELSE prices

\* the three assignments to the product dict
SetPrices(crawler, product, prices) ==
  [product EXCEPT !.original_price = prices[1],
                  !.discount_price = prices[2],
                  !.discount_rate  = compute_discount_rate(crawler, prices[1], prices[2])]

\* the part of enrich_product_with_detail after a non-empty response
\* (kleineskraftwerk.py 197-207, priwatt.py 169-173)
EnrichFromHtml(crawler, product, html) ==
  SetPrices(crawler, product,
            FillMissing(crawler, extract_prices_from_detail(crawler, html)))

(***************************************************************************)
(* idealo: text and URL utilities.                                         *)
(*                                                                         *)
(* A URL is a record: abs (it starts with a scheme and names a host), the  *)
(* host as text, the path as an opaque string and the query as a sequence  *)
(* of key/value pairs whose values are percent-encoded URLs, kept decoded. *)
(* EmptyUrl is the empty string.                                           *)
(***************************************************************************)
UpperLetters == << "A", "B", "C", "D", "E", "F", "G", "H", "I", "J", "K", "L", "M", "N", "O", "P", "Q", "R", "S", "T", "U", "V", "W", "X", "Y", "Z" >>

LowerLetters == << "a", "b", "c", "d", "e", "f", "g", "h", "i", "j", "k", "l", "m", "n", "o", "p", "q", "r", "s", "t", "u", "v", "w", "x", "y", "z" >>

Letters == {UpperLetters[i] : i \in 1..26} \cup {LowerLetters[i] : i \in 1..26}

LowerChar(c) ==
  IF \E i \in 1..26 : UpperLetters[i] = c
    THEN LowerLetters[CHOOSE i \in 1..26 : UpperLetters[i] = c]
    ELSE c

LowerKeepsCase(s) == s

\* str.lower()
Lower(s) == [i \in 1..Len(s) |-> LowerChar(s[i])]

\* str.startswith
StartsWith(s, prefix) == Len(s) >= Len(prefix) /\ SubSeq(s, 1, Len(prefix)) = prefix

\* str.endswith
EndsWith(s, suffix) ==
  Len(s) >= Len(suffix) /\ SubSeq(s, Len(s) - Len(suffix) + 1, Len(s)) = suffix

\* the substring test  sub in s
HasSub(s, sub) ==
  \E i \in 1..(Len(s) - Len(sub) + 1) : SubSeq(s, i, i + Len(sub) - 1) = sub

Www == << "w", "w", "w", "." >>

StripWww(s) == IF StartsWith(s, Www) THEN Drop(s, 4) ELSE s

\* str.split(sep) for a one-character separator
RECURSIVE Split(_, _)
Split(s, sep) ==
  IF ~Contains(s, sep) THEN << s >>
  ELSE LET i == CHOOSE x \in 1..Len(s) : s[x] = sep /\ \A y \in 1..(x - 1) : s[y] # sep
       IN  << SubSeq(s, 1, i - 1) >> \o Split(Drop(s, i), sep)

IDEALO_HOST == << "w", "w", "w", ".", "i", "d", "e", "a", "l", "o", ".", "d", "e" >>

EmptyUrl == [abs |-> FALSE, host |-> << >>, path |-> "", query |-> << >>]

\* to_absolute; urljoin(IDEALO_ORIGIN, url) for a root-relative url
to_absolute(url) ==
  IF url = EmptyUrl THEN EmptyUrl
  ELSE IF url.abs THEN url
  ELSE [url EXCEPT !.abs = TRUE, !.host = IDEALO_HOST]

RedirectPaths == {"/relocator/relocate", "/Redirect"}

TargetKeys == << "targetUrl", "url", "redirectUrl" >>

\* resolve_idealo_redirect
resolve_idealo_redirect(url) ==
  IF HasSub(url.host, << "i", "d", "e", "a", "l", "o", "." >>) /\ url.path \in RedirectPaths
    THEN LET hit == {k \in 1..Len(TargetKeys) :
                       \E j \in 1..Len(url.query) : url.query[j].key = TargetKeys[k]}
         IN  IF hit = {} THEN url
             ELSE LET k == CHOOSE x \in hit : \A y \in hit : x <= y
                      j == CHOOSE x \in 1..Len(url.query) :
                             /\ url.query[x].key = TargetKeys[k]
                             /\ \A y \in 1..(x - 1) : url.query[y].key # TargetKeys[k]
                  IN  url.query[j].value
    ELSE url

\* extract_host
extract_host(url) ==
  IF url = EmptyUrl THEN << >> ELSE StripWww(Lower(url.host))

\* the class [A-Za-z0-9.-] of the domain pattern
DomainChar(c) == c \in Letters \/ IsDigit(c) \/ c = "." \/ c = "-"

RECURSIVE LetterRunEnd(_, _)
LetterRunEnd(s, i) ==
  IF i <= Len(s) /\ s[i] \in Letters THEN LetterRunEnd(s, i + 1) ELSE i

\* the dots at which r"[A-Za-z0-9.-]+\.[A-Za-z]{2,}" can match when it starts at i
DomainDots(s, i) ==
  {d \in (i + 1)..(Len(s) - 2) :
     /\ s[d] = "."
     /\ \A x \in i..d : DomainChar(s[x])
     /\ s[d + 1] \in Letters
     /\ s[d + 2] \in Letters}

\* re.search(r"[A-Za-z0-9.-]+\.[A-Za-z]{2,}", s).group(0), or << >>
DomainMatch(s) ==
  LET starts == {i \in 1..Len(s) : DomainDots(s, i) # {}}
  IN  IF starts = {} THEN << >>
      ELSE LET i == CHOOSE x \in starts : \A y \in starts : x <= y
               d == CHOOSE x \in DomainDots(s, i) : \A y \in DomainDots(s, i) : y <= x
           IN  SubSeq(s, i, LetterRunEnd(s, d + 1) - 1)

\* the text before the first " - "
BeforeDash(s) ==
  LET at == {i \in 1..(Len(s) - 2) : SubSeq(s, i, i + 2) = << " ", "-", " " >>}
  IN  IF at = {} THEN s
      ELSE SubSeq(s, 1, (CHOOSE i \in at : \A j \in at : i <= j) - 1)

\* extract_merchant_from_alt
extract_merchant_from_alt(alt_text) ==
  IF alt_text = << >> THEN << >>
  ELSE LET m0 == Strip(BeforeDash(alt_text))
           m1 == IF DomainMatch(m0) # << >> THEN DomainMatch(m0) ELSE m0
       IN  StripWww(Lower(m1))

unwanted_suffixes ==
    {<< "d", "e" >>,
     << "c", "o", "m" >>,
     << "n", "e", "t" >>,
     << "o", "r", "g" >>,
     << "e", "u" >>,
     << "u", "k" >>,
     << "u", "s" >>,
     << "c", "a" >>,
     << "a", "u" >>,
     << "m", "e", "d", "i", "a" >>,
     << "s", "h", "o", "p" >>,
     << "s", "t", "o", "r", "e" >>,
     << "m", "a", "r", "k", "e", "t" >>,
     << "m", "a", "l", "l" >>,
     << "d", "i", "r", "e", "c", "t" >>,
     << "d", "i", "r", "e", "k", "t" >>,
     << "o", "n", "l", "i", "n", "e" >>,
     << "w", "e", "b" >>,
     << "s", "i", "t", "e" >>,
     << "p", "o", "r", "t", "a", "l" >>,
     << "c", "e", "n", "t", "e", "r" >>,
     << "g", "r", "o", "u", "p" >>,
     << "c", "o", "r", "p" >>,
     << "i", "n", "c" >>,
     << "l", "t", "d" >>,
     << "g", "m", "b", "h" >>,
     << "a", "g" >>,
     << "k", "g" >>,
     << "c", "o" >>,
     << "l", "l", "c" >>}

separators == << ".", "-", "_", " " >>

\* the parts clean_merchant_name keeps after splitting at one separator
CleanedParts(merchant, sep) ==
  LET parts == Split(merchant, sep)
  IN  SelectSeq([i \in 1..Len(parts) |-> Strip(parts[i])],
                LAMBDA q : q # << >> /\ q \notin unwanted_suffixes)

\* clean_merchant_name
clean_merchant_name(merchant) ==
  IF merchant = << >> THEN << >>
  ELSE LET m    == StripWww(Strip(Lower(merchant)))
           hits == {k \in 1..Len(separators) :
                      Contains(m, separators[k]) /\ CleanedParts(m, separators[k]) # << >>}
       IN  IF hits # {}
             THEN CleanedParts(m, separators[CHOOSE k \in hits : \A j \in hits : k <= j])[1]
           ELSE IF m \notin unwanted_suffixes THEN m
           ELSE << >>

\* the regex class \w
WordChar(c) == c \in Letters \/ IsDigit(c) \/ c = "_"

\* the regex assertion \b between s[i-1] and s[i]
WordBoundary(s, i) ==
  LET before == i > 1 /\ i - 1 <= Len(s) /\ WordChar(s[i - 1])
      after  == i >= 1 /\ i <= Len(s) /\ WordChar(s[i])
  IN  before # after

RECURSIVE SkipWs(_, _)
SkipWs(s, i) == IF i <= Len(s) /\ s[i] \in Whitespace THEN SkipWs(s, i + 1) ELSE i

RECURSIVE AmountRunEnd(_, _)
AmountRunEnd(s, i) ==
  IF i <= Len(s) /\ (IsDigit(s[i]) \/ s[i] = "." \/ s[i] = ",")
    THEN AmountRunEnd(s, i + 1)
    ELSE i

\* "ab" or "ao" in any letter case at s[i], s[i+1]
AbAoAt(s, i) ==
  i + 1 <= Len(s) /\ s[i] \in {"a", "A"} /\ s[i + 1] \in {"b", "B", "o", "O"}

\* does r"\b(?:ab|ao)\s*([\d\.\,]+)\s*€" match at position i
PriceFromAt(s, i) ==
  LET j == SkipWs(s, i + 2)
      e == AmountRunEnd(s, j)
      f == SkipWs(s, e)
  IN  AbAoAt(s, i) /\ WordBoundary(s, i) /\ e > j /\ f <= Len(s) /\ s[f] = "€"

\* parse_price_from_text
parse_price_from_text(txt) ==
  LET starts == {i \in 1..Len(txt) : PriceFromAt(txt, i)}
  IN  IF starts = {} THEN << >>
      ELSE LET i == CHOOSE x \in starts : \A y \in starts : x <= y
               j == SkipWs(txt, i + 2)
           IN  SubSeq(txt, j, AmountRunEnd(txt, j) - 1) \o << " ", "€" >>

\* re.sub(r"\b(ab|ao)\b\s*", "", s, flags=IGNORECASE), scanning from i
RECURSIVE RemoveAbWords(_, _)
RemoveAbWords(s, i) ==
  IF i > Len(s) THEN << >>
  ELSE IF AbAoAt(s, i) /\ WordBoundary(s, i) /\ WordBoundary(s, i + 2)
    THEN RemoveAbWords(s, SkipWs(s, i + 2))
  ELSE << s[i] >> \o RemoveAbWords(s, i + 1)

\* clean_price
clean_price(txt) ==
  IF txt = << >> THEN << >>
  ELSE Strip(RemoveAbWords(StripAbPrefix(txt, {"a", "A"} \X {"b", "B", "o", "O"}), 1))

(***************************************************************************)
(* idealo: parsing.  A search page is the sequence of its product anchors  *)
(* (a[href*="/preisvergleich/OffersOfProduct/"]) in document order, each   *)
(* with its text, its href and the text of its parent element.  A detail   *)
(* page is the text of its first price element, the anchors of the first   *)
(* offer in document order (class "cta": the full call-to-action class     *)
(* list, "leadout": a.button--leadout, "plain": any other; with or without *)
(* a data-shop-name attribute) and the offer's logo image, if any.         *)
(***************************************************************************)
DedupKeepsAll(products, seen) == products

RECURSIVE DedupByLink(_, _)
DedupByLink(products, seen) ==
  IF products = << >> THEN << >>
  ELSE IF Head(products).link \in seen THEN DedupByLink(Tail(products), seen)
  ELSE << Head(products) >> \o DedupByLink(Tail(products), seen \cup {Head(products).link})

\* parse_search_html
parse_search_html(html) ==
  LET kept == SelectSeq(html, LAMBDA a : Len(Strip(a.text)) >= 6 /\ a.href # EmptyUrl)
      Rec(a) ==
        LET own == parse_price_from_text(Strip(a.text))
        IN  [name            |-> Strip(a.text),
             link            |-> to_absolute(a.href),
             price_from      |-> IF own # << >> THEN own
                                 ELSE parse_price_from_text(Strip(a.parentText)),
             preis_versand   |-> << >>,
             first_offer_url |-> EmptyUrl,
             merchant        |-> << >>]
  IN  DedupByLink([i \in 1..Len(kept) |-> Rec(kept[i])], {})

\* the first of the anchors at the positions idx, 0 if there is none
FirstAnchor(idx) ==
  IF idx = {} THEN 0 ELSE CHOOSE i \in idx : \A j \in idx : i <= j

\* pick_cta_anchor: the index of the chosen anchor, 0 for None
pick_cta_anchor(scope) ==
  LET c1 == FirstAnchor({i \in 1..Len(scope) : scope[i].cls = "cta" /\ scope[i].hasShop})
      c2 == FirstAnchor({i \in 1..Len(scope) : scope[i].cls \in {"cta", "leadout"} /\ scope[i].hasShop})
      c3 == FirstAnchor({i \in 1..Len(scope) : scope[i].hasShop})
      c4 == FirstAnchor({i \in 1..Len(scope) : scope[i].cls \in {"cta", "leadout"}})
  IN  IF c1 # 0 THEN c1 ELSE IF c2 # 0 THEN c2 ELSE IF c3 # 0 THEN c3 ELSE c4

\* find_first_offer_url
find_first_offer_url(scope) ==
  LET cta   == pick_cta_anchor(scope)
      first == FirstAnchor({i \in 1..Len(scope) : scope[i].href # EmptyUrl})
  IN  IF cta # 0 /\ scope[cta].href # EmptyUrl
        THEN to_absolute(resolve_idealo_redirect(scope[cta].href))
      ELSE IF first # 0 THEN to_absolute(resolve_idealo_redirect(scope[first].href))
      ELSE EmptyUrl

IdealoFamilyNever(host) == FALSE

IdealoFamily(host) ==
  \/ EndsWith(host, << "i", "d", "e", "a", "l", "o", ".", "d", "e" >>)
  \/ EndsWith(host, << "i", "d", "e", "a", "l", "o", ".", "c", "o", ".", "u", "k" >>)
  \/ HasSub(host, << "i", "d", "e", "a", "l", "o", "." >>)

\* parse_detail_html
parse_detail_html(html, product) ==
  LET pv              == Strip(html.pv)
      preis_versand   == IF pv # << >> THEN pv ELSE product.price_from
      first_offer_url == find_first_offer_url(html.anchors)
      cta             == pick_cta_anchor(html.anchors)
      m1 == IF cta # 0
              THEN clean_merchant_name(StripWww(Lower(Strip(html.anchors[cta].shop))))
              ELSE << >>
      m2 == IF m1 = << >> /\ html.hasLogo
              THEN clean_merchant_name(extract_merchant_from_alt(html.logoAlt))
              ELSE m1
      host == extract_host(resolve_idealo_redirect(first_offer_url))
      m3 == IF m2 = << >> /\ first_offer_url # EmptyUrl /\ host # << >> /\ ~IdealoFamily(host)
              THEN clean_merchant_name(host)
              ELSE m2
  IN  [product EXCEPT !.preis_versand   = clean_price(preis_versand),
                      !.first_offer_url = first_offer_url,
                      !.merchant        = m3,
                      !.price_from      = << >>]

(***************************************************************************)
(* The pages the fetch collaborator can return in the model.               *)
(***************************************************************************)
SeqsUpTo(S, n) == UNION {[1..k -> S] : k \in 0..n}

T_A    == << "A" >>
T_B    == << "B" >>
T_199  == << "1", "9", "9", ",", "0", "0", " ", "€" >>
T_149  == << "a", "b", " ", "1", "4", "9", ",", "0", "0", " ", "€" >>
T_Sold == << "s", "o", "l", "d" >>
T_Two  == << "1", ",", "0", "0", "-", "2", ",", "0", "0" >>

\* the product cards of the site in catalogue order: two products that link
\* to the same detail page, a third product, and a card with an empty title
\* and no link
CatalogBlocks ==
  << [hasTitle |-> TRUE, title |-> T_A,   href |-> "/p1"],
     [hasTitle |-> TRUE, title |-> T_B,   href |-> "/p1"],
     [hasTitle |-> TRUE, title |-> T_B,   href |-> "/p2"],
     [hasTitle |-> TRUE, title |-> << >>, href |-> ""] >>

\* a listing page shows a stretch of the catalogue, or no card at all
ListingPages ==
  UNION {{SubSeq(CatalogBlocks, a, b) : b \in {c \in (a - 1)..Len(CatalogBlocks) : c - a < MaxBlocks}} :
           a \in 1..Len(CatalogBlocks)}

\* the detail pages of the site, by URL: a page with a struck-through and a
\* current price, a page whose price text holds no amount of the expected
\* form, and (behind any other URL) a page without price elements
DetailPagesKK(url) ==
  IF url = "/p1"
    THEN [block |-> TRUE, amounts |-> << [wrap |-> "del", text |-> T_199],
                                        [wrap |-> "ins", text |-> T_149] >>]
  ELSE IF url = "/p2"
    THEN [block |-> TRUE, amounts |-> << [wrap |-> "none", text |-> T_Sold] >>]
  ELSE [block |-> FALSE, amounts |-> << >>]

DetailPagesPW(url) ==
  IF url = "/p1"
    THEN [hasDiscount |-> TRUE, discountText |-> T_149, hasOriginal |-> TRUE, originalText |-> T_199]
  ELSE IF url = "/p2"
    THEN [hasDiscount |-> TRUE, discountText |-> T_Two, hasOriginal |-> FALSE, originalText |-> << >>]
  ELSE [hasDiscount |-> FALSE, discountText |-> << >>, hasOriginal |-> FALSE, originalText |-> << >>]

DetailPages(c, url) == IF c = "priwatt" THEN DetailPagesPW(url) ELSE DetailPagesKK(url)

(***************************************************************************)
(* One crawl run: crawl() of the crawler chosen in Init.                   *)
(*                                                                         *)
(*   crawler       which module's crawl() runs                             *)
(*   pc            where crawl() is: "listing" (awaiting the listing       *)
(*                 fetches), "sleep" (idealo, asyncio.sleep before the     *)
(*                 retry), "details" (awaiting the detail fetches),        *)
(*                 "done" (returned), "raised" (left by an exception)      *)
(*   lstFetches    how many fetches of each listing URL have been issued   *)
(*   lstDone       the listing tasks that have returned                    *)
(*   lstResp       what the fetch collaborator answered to each listing    *)
(*                 fetch (catalog: by URL index; idealo: by attempt)       *)
(*   results       the value gather returns for the listing tasks          *)
(*   all_items     the product dicts, in the order crawl() collected them  *)
(*   detDone       the detail tasks that have returned                     *)
(*   detResp       what the collaborator answered to each detail fetch     *)
(*   enriched      the value gather returns for the detail tasks: a        *)
(*                 reference (index into all_items) per position, 0 unset  *)
(*   reordered     whether some task returned before a task that stands    *)
(*                 earlier in the same gather call                         *)
(*   all_products  the rows handed to the CSV writer                       *)
(*   total         the count reported at the end of the run                *)
(*   written       whether the output file was written                     *)
(***************************************************************************)
VARIABLES crawler, pc, lstFetches, lstDone, lstResp, results, all_items,
          detDone, detResp, enriched, reordered, all_products, total, written

crawlVars == << crawler, pc, lstFetches, lstDone, lstResp, results, all_items,
                detDone, detResp, enriched, reordered, all_products, total, written >>

(***************************************************************************)
(* main.py: the menu program.                                              *)
(*                                                                         *)
(*   mpc            "menu" (get_user_choice), "running" (inside            *)
(*                  asyncio.run(run_selected_crawlers(...))), "exited"     *)
(*   selected_keys  the keys get_user_choice returned                      *)
(*   run_results    the list `results` of run_selected_crawlers            *)
(*   outcomes       what happened in each run_crawler call, in call order  *)
(*   summary        the lines of the execution summary that were printed   *)
(*   interrupted    whether a KeyboardInterrupt ended asyncio.run          *)
(*   exit_code      the value main() returned to sys.exit; -1 while        *)
(*                  running                                                *)
(***************************************************************************)
VARIABLES mpc, selected_keys, run_results, outcomes, summary, interrupted, exit_code

mainVars == << mpc, selected_keys, run_results, outcomes, summary, interrupted, exit_code >>

(***************************************************************************)
(* One call of a parsing or normalisation function on its own.             *)
(*                                                                         *)
(*   fn        the function that is called                                 *)
(*   args      its arguments                                               *)
(*   ret       the value it returned                                       *)
(*   returned  whether the call has returned                               *)
(***************************************************************************)
VARIABLES fn, args, ret, returned

callVars == << fn, args, ret, returned >>

vars == << crawlVars, mainVars, callVars >>

\* no single function call is being looked at
CallsIdle ==
  /\ fn = "none"
  /\ args = << >>
  /\ ret = << >>
  /\ returned = FALSE

Catalog == {"kleineskraftwerk", "priwatt"}

NoResp == [kind |-> "none"]

RECURSIVE SumLen(_)
SumLen(ss) == IF ss = << >> THEN 0 ELSE Len(Head(ss)) + SumLen(Tail(ss))

\* results stored in the order in which the tasks return
GatherSlotByCompletion(done, i) == Cardinality(done) + 1

\* asyncio.gather returns the results in the order of its arguments: the
\* result of the i-th awaitable is stored at position i
GatherSlot(done, i) == i

\* returning as soon as one awaitable has returned
GatherCompleteAny(done, n) == done # {} \/ n = 0

\* gather returns once every awaitable has returned
GatherComplete(done, n) == done = 1..n

\* try/except Exception around crawler.arun in fetch_products: present in
\* the catalog crawlers, absent around idealo's listing fetch
ListingFetchGuarded(c) == c \in Catalog

\* no try/except around the detail fetch
DetailFetchGuardedNowhere(c) == FALSE

\* try/except Exception around crawler.arun in enrich_product_with_detail:
\* present in the catalog crawlers, absent in idealo's fetch_detail
DetailFetchGuarded(c) == c \in Catalog

\* task i returns while a task that stands before it has not
Overtakes(done, i) == \E j \in 1..(i - 1) : j \notin done

\* the value gather hands out: the dicts of the tasks that have returned, in
\* slot order (gather hands out nothing before every slot is filled)
Returned(refs, items) ==
  LET set == SelectSeq(refs, LAMBDA r : r # 0)
  IN  [j \in 1..Len(set) |-> items[set[j]]]

\* main.py is not running
MainIdle ==
  /\ mpc = "off"
  /\ selected_keys = << >>
  /\ run_results = << >>
  /\ outcomes = << >>
  /\ summary = << >>
  /\ interrupted = FALSE
  /\ exit_code = -1

InitCrawl ==
  /\ MainIdle
  /\ CallsIdle
  /\ crawler \in {"idealo", "kleineskraftwerk", "priwatt"}
  /\ pc = "listing"
  /\ lstFetches = IF crawler \in Catalog THEN [i \in 1..NumUrls |-> 1] ELSE << 1 >>
  /\ lstDone = {}
  /\ lstResp = IF crawler \in Catalog THEN [i \in 1..NumUrls |-> NoResp] ELSE << >>
  /\ results = IF crawler \in Catalog THEN [i \in 1..NumUrls |-> << >>] ELSE << >>
  /\ all_items = << >>
  /\ detDone = {}
  /\ detResp = << >>
  /\ enriched = << >>
  /\ reordered = FALSE
  /\ all_products = << >>
  /\ total = 0
  /\ written = FALSE

\* fetch_products(crawler, URLS[i]) returns: the fetch raised (kind "raise"),
\* the response was empty ("empty"), or a page came back and was parsed
ListingReturns(i, resp, products) ==
  /\ crawler \in Catalog
  /\ pc = "listing"
  /\ i \in (1..NumUrls) \ lstDone
  /\ SumLen(results) + Len(products) <= MaxItems
  /\ lstDone' = lstDone \cup {i}
  /\ lstResp' = [lstResp EXCEPT ![i] = resp]
  /\ results' = [results EXCEPT ![GatherSlot(lstDone, i)] = products]
  /\ reordered' = (reordered \/ Overtakes(lstDone, i))
  /\ UNCHANGED << crawler, pc, lstFetches, all_items, detDone, detResp, enriched,
                  all_products, total, written,
                  mainVars, callVars >>

\* an exception of crawler.arun that no try/except catches leaves crawl()
Propagates ==
  /\ pc' = "raised"
  /\ UNCHANGED << crawler, lstFetches, lstDone, results, all_items, detDone, enriched,
                  reordered, all_products, total, written,
                  mainVars, callVars >>

ListingRaises(i) ==
  IF ListingFetchGuarded(crawler)
    THEN ListingReturns(i, [kind |-> "raise"], << >>)
    ELSE /\ crawler \in Catalog
         /\ pc = "listing"
         /\ i \in (1..NumUrls) \ lstDone
         /\ lstResp' = [lstResp EXCEPT ![i] = [kind |-> "raise"]]
         /\ UNCHANGED detResp
         /\ Propagates

ListingEmpty(i) == ListingReturns(i, [kind |-> "empty"], << >>)

ListingPage(i, html) ==
  ListingReturns(i, [kind |-> "page", page |-> html],
                 parse_products(crawler, html, URLS[i]))

\* crawl() resumes after the first gather: it tags every item with its
\* listing URL, collects all_items and starts one detail task per item
CollectItems ==
  /\ crawler \in Catalog
  /\ pc = "listing"
  /\ GatherComplete(lstDone, NumUrls)
  /\ all_items' = Flatten([i \in 1..NumUrls |->
                     [j \in 1..Len(results[i]) |->
                        [results[i][j] EXCEPT !.source_url = URLS[i]]]])
  /\ enriched' = [k \in 1..Len(all_items') |-> 0]
  /\ detResp' = [k \in 1..Len(all_items') |-> NoResp]
  /\ detDone' = {}
  /\ pc' = "details"
  /\ UNCHANGED << crawler, lstFetches, lstDone, lstResp, results, reordered,
                  all_products, total, written,
                  mainVars, callVars >>

\* enrich_product_with_detail(crawler, all_items[k]) returns the dict it was
\* given, changed in place or not
DetailReturns(k, resp, product) ==
  /\ crawler \in Catalog
  /\ pc = "details"
  /\ k \in (1..Len(all_items)) \ detDone
  /\ all_items[k].detail_url # ""
  /\ detDone' = detDone \cup {k}
  /\ detResp' = [detResp EXCEPT ![k] = resp]
  /\ all_items' = [all_items EXCEPT ![k] = product]
  /\ enriched' = [enriched EXCEPT ![GatherSlot(detDone, k)] = k]
  /\ reordered' = (reordered \/ Overtakes(detDone, k))
  /\ UNCHANGED << crawler, pc, lstFetches, lstDone, lstResp, results,
                  all_products, total, written,
                  mainVars, callVars >>

DetailRaises(k) ==
  /\ k \in 1..Len(all_items)
  /\ IF DetailFetchGuarded(crawler)
       THEN DetailReturns(k, [kind |-> "raise"], all_items[k])
       ELSE /\ crawler \in Catalog
            /\ pc = "details"
            /\ k \notin detDone
            /\ detResp' = [detResp EXCEPT ![k] = [kind |-> "raise"]]
            /\ UNCHANGED lstResp
            /\ Propagates

DetailEmpty(k) ==
  /\ k \in 1..Len(all_items)
  /\ DetailReturns(k, [kind |-> "empty"], all_items[k])

DetailPage(k) ==
  /\ k \in 1..Len(all_items)
  /\ DetailReturns(k, [kind |-> "page",
                       page |-> DetailPages(crawler, all_items[k].detail_url)],
                   EnrichFromHtml(crawler, all_items[k],
                                  DetailPages(crawler, all_items[k].detail_url)))

\* the rows crawl() builds from enriched_items: grouped by source_url, the
\* groups taken in the order of URLS
GroupedRows(enriched_items) ==
  Flatten([i \in 1..NumUrls |->
             SelectSeq(enriched_items, LAMBDA item : item.source_url = URLS[i])])

\* crawl() resumes after the second gather, groups, writes and returns
Merge ==
  /\ crawler \in Catalog
  /\ pc = "details"
  /\ GatherComplete(detDone, Len(all_items))
  /\ all_products' = GroupedRows(Returned(enriched, all_items))
  /\ total' = Len(all_products')
  /\ written' = (all_products' # << >>)
  /\ pc' = "done"
  /\ UNCHANGED << crawler, lstFetches, lstDone, lstResp, results, all_items,
                  detDone, detResp, enriched, reordered,
                  mainVars, callVars >>

(***************************************************************************)
(* idealo's crawl(): one search page, fetched up to ListingAttempts times. *)
(***************************************************************************)
\* range(3) and range(1) in place of range(2)
ListingAttemptsThree == 2 + 1

ListingAttemptsOnce == 2 - 1

\* for attempt in range(2)
ListingAttempts == 2

T_Solix1 == << "S", "o", "l", "i", "x", " ", "1" >>
T_Solix2 == << "S", "o", "l", "i", "x", " ", "2" >>
T_Short  == << "a", "b", "c" >>
T_From   == << "a", "b", " ", "1", "9", "9", ",", "0", "0", " ", "€" >>
T_Shop   == << "w", "w", "w", ".", "E", "x", "a", "m", "p", "l", "e", "-",
               "S", "h", "o", "p", ".", "d", "e" >>
T_Cheap  == << "c", "h", "e", "a", "p", "g", "e", "a", "r", ".", "c", "o", "m" >>

RelUrl(path) == [abs |-> FALSE, host |-> << >>, path |-> path, query |-> << >>]

AbsUrl(host, path) == [abs |-> TRUE, host |-> host, path |-> path, query |-> << >>]

RelocateTo(target) ==
  [abs |-> FALSE, host |-> << >>, path |-> "/relocator/relocate",
   query |-> << [key |-> "targetUrl", value |-> target] >>]

IdealoAnchors ==
  {[text |-> T_Solix1, href |-> RelUrl("/preisvergleich/OffersOfProduct/1"), parentText |-> T_From],
   [text |-> T_Solix2, href |-> RelUrl("/preisvergleich/OffersOfProduct/1"), parentText |-> << >>],
   [text |-> T_Solix2, href |-> AbsUrl(IDEALO_HOST, "/preisvergleich/OffersOfProduct/2"),
    parentText |-> << >>],
   [text |-> T_Short,  href |-> RelUrl("/preisvergleich/OffersOfProduct/3"), parentText |-> << >>]}

SearchPages == SeqsUpTo(IdealoAnchors, MaxBlocks)

\* what BeautifulSoup makes of the empty document
EmptyDetailPage == [pv |-> << >>, anchors |-> << >>, hasLogo |-> FALSE, logoAlt |-> << >>]

IdealoDetailPages ==
  {[pv |-> T_149,
    anchors |-> << [cls |-> "cta", hasShop |-> TRUE, shop |-> T_Shop,
                    href |-> RelocateTo(AbsUrl(T_Cheap, "/buy"))] >>,
    hasLogo |-> FALSE, logoAlt |-> << >>],
   [pv |-> << >>,
    anchors |-> << [cls |-> "plain", hasShop |-> FALSE, shop |-> << >>,
                    href |-> RelocateTo(AbsUrl(T_Cheap, "/buy"))] >>,
    hasLogo |-> FALSE, logoAlt |-> << >>]}

\* res = await crawler.arun(url) raises: nothing catches it in crawl()
IdealoListingRaises ==
  /\ crawler = "idealo"
  /\ pc = "listing"
  /\ lstResp' = Append(lstResp, [kind |-> "raise"])
  /\ UNCHANGED detResp
  /\ Propagates

\* one pass of the loop body after the fetch returned: parse, then either
\* break out of the loop and start the detail tasks, or go to sleep
IdealoListingReturns(resp, html) ==
  /\ crawler = "idealo"
  /\ pc = "listing"
  /\ LET products == parse_search_html(html)
     IN  /\ Len(products) <= MaxItems
         /\ lstResp' = Append(lstResp, resp)
         /\ IF products # << >>
              THEN /\ all_items' = products
                   /\ enriched' = [k \in 1..Len(products) |-> 0]
                   /\ detResp' = [k \in 1..Len(products) |-> NoResp]
                   /\ pc' = "details"
              ELSE /\ pc' = "sleep"
                   /\ UNCHANGED << all_items, enriched, detResp >>
  /\ UNCHANGED << crawler, lstFetches, lstDone, results, detDone, reordered,
                  all_products, total, written,
                  mainVars, callVars >>

\* the response carries an empty html
IdealoListingEmpty == IdealoListingReturns([kind |-> "empty"], << >>)

IdealoListingPage(html) == IdealoListingReturns([kind |-> "page", page |-> html], html)

\* asyncio.sleep(2) is over: the loop fetches again if the range is not
\* exhausted, else crawl() returns [] without writing
IdealoWake ==
  /\ crawler = "idealo"
  /\ pc = "sleep"
  /\ IF Len(lstResp) < ListingAttempts
       THEN /\ pc' = "listing"
            /\ lstFetches' = [lstFetches EXCEPT ![1] = @ + 1]
       ELSE /\ pc' = "done"
            /\ UNCHANGED lstFetches
  /\ UNCHANGED << crawler, lstDone, lstResp, results, all_items, detDone, detResp,
                  enriched, reordered, all_products, total, written,
                  mainVars, callVars >>

\* fetch_detail(crawler, all_items[k]): crawler.arun raises, gather hands the
\* exception to crawl() at once, nothing catches it there
IdealoDetailRaises(k) ==
  /\ crawler = "idealo"
  /\ pc = "details"
  /\ k \in (1..Len(all_items)) \ detDone
  /\ detResp' = [detResp EXCEPT ![k] = [kind |-> "raise"]]
  /\ UNCHANGED lstResp
  /\ Propagates

\* fetch_detail returns parse_detail_html(res.html, prod)
IdealoDetailReturns(k, resp, html) ==
  /\ crawler = "idealo"
  /\ pc = "details"
  /\ k \in (1..Len(all_items)) \ detDone
  /\ detDone' = detDone \cup {k}
  /\ detResp' = [detResp EXCEPT ![k] = resp]
  /\ all_items' = [all_items EXCEPT ![k] = parse_detail_html(html, all_items[k])]
  /\ enriched' = [enriched EXCEPT ![GatherSlot(detDone, k)] = k]
  /\ reordered' = (reordered \/ Overtakes(detDone, k))
  /\ UNCHANGED << crawler, pc, lstFetches, lstDone, lstResp, results,
                  all_products, total, written,
                  mainVars, callVars >>

IdealoDetailEmpty(k) == IdealoDetailReturns(k, [kind |-> "empty"], EmptyDetailPage)

IdealoDetailPage(k, html) == IdealoDetailReturns(k, [kind |-> "page", page |-> html], html)

\* crawl() resumes after gather, writes one row per element of detailed
IdealoMerge ==
  /\ crawler = "idealo"
  /\ pc = "details"
  /\ GatherComplete(detDone, Len(all_items))
  /\ all_products' = Returned(enriched, all_items)
  /\ total' = Len(all_products')
  /\ written' = TRUE
  /\ pc' = "done"
  /\ UNCHANGED << crawler, lstFetches, lstDone, lstResp, results, all_items,
                  detDone, detResp, enriched, reordered,
                  mainVars, callVars >>

Init == InitCrawl

Next ==
  \/ \E i \in 1..NumUrls : ListingRaises(i)
  \/ \E i \in 1..NumUrls : ListingEmpty(i)
  \/ \E i \in 1..NumUrls, html \in ListingPages : ListingPage(i, html)
  \/ CollectItems
  \/ \E k \in 1..MaxItems : DetailRaises(k)
  \/ \E k \in 1..MaxItems : DetailEmpty(k)
  \/ \E k \in 1..MaxItems : DetailPage(k)
  \/ Merge
  \/ IdealoListingRaises
  \/ IdealoListingEmpty
  \/ \E html \in SearchPages : IdealoListingPage(html)
  \/ IdealoWake
  \/ \E k \in 1..MaxItems : IdealoDetailRaises(k)
  \/ \E k \in 1..MaxItems : IdealoDetailEmpty(k)
  \/ \E k \in 1..MaxItems, html \in IdealoDetailPages : IdealoDetailPage(k, html)
  \/ IdealoMerge

Spec == Init /\ [][Next]_vars

(***************************************************************************)
(* main.py: run_crawler, run_selected_crawlers, main.                      *)
(***************************************************************************)
CRAWLER_KEYS == << "1", "2", "3" >>

CrawlerName(key) ==
  CASE key = "1" -> "idealo" [] key = "2" -> "kleineskraftwerk" [] key = "3" -> "priwatt"

\* what can happen inside run_crawler's try block
Outcomes == {"import_error", "no_crawl", "raised", "returned"}

\* an exception of crawl() taken for success
run_crawler_swallows(outcome) == outcome \in {"raised", "returned"}

\* the value run_crawler returns for each of them
run_crawler(outcome) ==
  CASE outcome = "import_error" -> FALSE
    [] outcome = "no_crawl"     -> FALSE
    [] outcome = "raised"       -> FALSE
    [] outcome = "returned"     -> TRUE

\* the failure count ignored
SummaryExitZero(failed_crawlers) == 0

\* the value run_selected_crawlers returns
SummaryExit(failed_crawlers) == IF failed_crawlers > 0 THEN 1 ELSE 0

\* main() returns this from its except KeyboardInterrupt
InterruptExit == 130

Failed(rs) == Cardinality({j \in 1..Len(rs) : ~rs[j].success})

\* no crawl run is in progress
CrawlIdle ==
  /\ crawler = "none"
  /\ pc = "off"
  /\ lstFetches = << >>
  /\ lstDone = {}
  /\ lstResp = << >>
  /\ results = << >>
  /\ all_items = << >>
  /\ detDone = {}
  /\ detResp = << >>
  /\ enriched = << >>
  /\ reordered = FALSE
  /\ all_products = << >>
  /\ total = 0
  /\ written = FALSE

InitMain ==
  /\ CrawlIdle
  /\ CallsIdle
  /\ mpc = "menu"
  /\ selected_keys = << >>
  /\ run_results = << >>
  /\ outcomes = << >>
  /\ summary = << >>
  /\ interrupted = FALSE
  /\ exit_code = -1

\* get_user_choice returns None: main returns 0
ChooseQuit ==
  /\ mpc = "menu"
  /\ mpc' = "exited"
  /\ exit_code' = 0
  /\ UNCHANGED << selected_keys, run_results, outcomes, summary, interrupted, crawlVars, callVars >>

\* get_user_choice returns every key ("a") or the one key typed
Choose(keys) ==
  /\ mpc = "menu"
  /\ selected_keys' = keys
  /\ mpc' = "running"
  /\ UNCHANGED << run_results, outcomes, summary, interrupted, exit_code, crawlVars, callVars >>

ChooseAll == Choose(CRAWLER_KEYS)

ChooseOne(key) == Choose(<< key >>)

\* one pass of the loop of run_selected_crawlers: run_crawler(key) for the
\* next key, its result appended to results
RunNext(outcome) ==
  /\ mpc = "running"
  /\ Len(outcomes) < Len(selected_keys)
  /\ LET key == selected_keys[Len(outcomes) + 1]
     IN  run_results' = Append(run_results,
                               [name |-> CrawlerName(key), success |-> run_crawler(outcome)])
  /\ outcomes' = Append(outcomes, outcome)
  /\ UNCHANGED << mpc, selected_keys, summary, interrupted, exit_code, crawlVars, callVars >>

ImportFails == RunNext("import_error")

NoCrawlFunction == RunNext("no_crawl")

CrawlRaises == RunNext("raised")

CrawlReturns == RunNext("returned")

\* the loop is over: the summary is printed and the exit code returned
Summarize ==
  /\ mpc = "running"
  /\ Len(outcomes) = Len(selected_keys)
  /\ summary' = run_results
  /\ exit_code' = SummaryExit(Failed(run_results))
  /\ mpc' = "exited"
  /\ UNCHANGED << selected_keys, run_results, outcomes, interrupted, crawlVars, callVars >>

\* the operator presses Ctrl-C while asyncio.run is running: neither
\* run_crawler's `except Exception` nor the crawlers' catch it, asyncio.run
\* raises KeyboardInterrupt and main returns from its handler
Interrupt ==
  /\ mpc = "running"
  /\ interrupted' = TRUE
  /\ exit_code' = InterruptExit
  /\ mpc' = "exited"
  /\ UNCHANGED << selected_keys, run_results, outcomes, summary, crawlVars, callVars >>

MainNext ==
  \/ ChooseQuit
  \/ ChooseAll
  \/ \E key \in {"1", "2", "3"} : ChooseOne(key)
  \/ ImportFails
  \/ NoCrawlFunction
  \/ CrawlRaises
  \/ CrawlReturns
  \/ Summarize
  \/ Interrupt

SpecMain == InitMain /\ [][MainNext]_vars


(***************************************************************************)
(* Single calls of the pure functions, each on an argument drawn from a    *)
(* small set of texts and pages.                                           *)
(***************************************************************************)
\* price strings handed to compute_discount_rate: canonical two-decimal
\* strings, the empty string and a text that is no number
RateTexts ==
  {<< >>, T_Sold,
   << "0", ".", "0", "0" >>,
   << "0", ".", "0", "1" >>,
   << "1", ".", "0", "0" >>,
   << "7", ".", "9", "9" >>,
   << "8", ".", "0", "0" >>,
   << "1", "4", "9", ".", "0", "0" >>,
   << "1", "9", "9", ".", "0", "0" >>}

\* merchant names handed to clean_merchant_name
MerchantTexts ==
  {<< >>,
   << "w", "w", "w", ".", "E", "x", "a", "m", "p", "l", "e", "-", "S", "h", "o", "p", ".", "d", "e" >>,
   << "e", "x", "a", "m", "p", "l", "e", "-", "s", "h", "o", "p" >>,
   << "e", "x", "a", "m", "p", "l", "e" >>,
   << "E", "x", "a", "m", "p", "l", "e", "-", "S", "h", "o", "p", ".", "d", "e" >>,
   << "c", "h", "e", "a", "p", "g", "e", "a", "r", ".", "c", "o", "m" >>,
   << "w", "w", "w", ".", "c", "h", "e", "a", "p", "g", "e", "a", "r", ".", "c", "o", "m" >>,
   << "S", "h", "o", "p" >>,
   << "d", "e" >>,
   << "G", "m", "b", "H" >>,
   << "w", "w", "w", ".", "d", "e" >>,
   << "s", "h", "o", "p", ".", "d", "e" >>,
   << "s", "o", "l", "a", "r", " ", "g", "m", "b", "h" >>,
   << " ", "S", "o", "l", "a", "r", " " >>,
   << "m", "y", "_", "s", "t", "o", "r", "e" >>,
   << "d", "e", "-", "x", ".", "c", "o", "m" >>,
   << "a", ".", "b" >>,
   << "w", "w", "w", "." >>,
   << "-" >>,
   << "." >>,
   << "s", "o", "l", "a", "r", ".", "s", "h", "o", "p", "-", "x" >>}

T_ShopUpper == << "W", "W", "W", ".", "E", "X", "A", "M", "P", "L", "E", "-", "S", "H", "O", "P", ".", "D", "E" >>
T_SolarStore == << "w", "w", "w", ".", "S", "o", "l", "a", "r", "-", "S", "t", "o", "r", "e", ".", "C", "O", "M" >>
T_WwwWwwDe == << "w", "w", "w", ".", "w", "w", "w", ".", "d", "e" >>
T_WwwSpaceDe == << "w", "w", "w", ".", "w", "w", "w", ".", " ", "d", "e" >>
T_ShopSpaces == << " ", "S", "h", "o", "p", " " >>
T_WwwSolar == << "w", "w", "w", ".", "W", "W", "W", ".", "S", "o", "l", "a", "r", ".", "d", "e" >>
T_De == << "d", "e" >>
T_Amazon == << "A", "m", "a", "z", "o", "n" >>
T_LogoAlt == << "S", "o", "l", "a", "r", "i", "x", ".", "d", "e", " ", "-", " ", "L", "o", "g", "o" >>
T_LogoGmbh == << "G", "m", "b", "H" >>
T_WwwCheap == << "w", "w", "w", ".", "c", "h", "e", "a", "p", "g", "e", "a", "r", ".", "c", "o", "m" >>
T_IdealoFr == << "s", "h", "o", "p", ".", "i", "d", "e", "a", "l", "o", ".", "f", "r" >>

\* the data-shop-name attribute of the first offer's anchor: absent, or one of these texts
ShopAttrs ==
  {[hasShop |-> FALSE, shop |-> << >>]}
    \cup {[hasShop |-> TRUE, shop |-> s] :
            s \in {<< >>, T_Shop, T_ShopUpper, T_SolarStore, T_De, T_Amazon,
                   T_WwwWwwDe, T_WwwSpaceDe, T_ShopSpaces, T_WwwSolar}}

\* the logo image of the first offer: absent, or with one of these alt texts
LogoAttrs ==
  {[hasLogo |-> FALSE, logoAlt |-> << >>]}
    \cup {[hasLogo |-> TRUE, logoAlt |-> a] : a \in {T_LogoAlt, T_LogoGmbh}}

\* the href of the first offer's anchor
OfferHrefs ==
  {EmptyUrl, RelocateTo(AbsUrl(T_Cheap, "/buy")), AbsUrl(T_WwwCheap, "/buy"),
   RelUrl("/offer/1"), AbsUrl(T_IdealoFr, "/offer/1")}

\* detail pages whose first offer holds one anchor
OneOfferPages ==
  {[pv |-> T_149,
    anchors |-> << [cls |-> c, hasShop |-> s.hasShop, shop |-> s.shop, href |-> h] >>,
    hasLogo |-> l.hasLogo, logoAlt |-> l.logoAlt] :
     c \in {"cta", "plain"}, s \in ShopAttrs, l \in LogoAttrs, h \in OfferHrefs}

\* the record of the search page that parse_detail_html completes
IdealoProduct ==
  parse_search_html(<< [text |-> T_Solix1, href |-> RelUrl("/preisvergleich/OffersOfProduct/1"),
                        parentText |-> T_From] >>)[1]

DetailCallArgs ==
  {<< html, IdealoProduct >> : html \in OneOfferPages \cup IdealoDetailPages \cup {EmptyDetailPage}}

\* search pages for single calls of parse_search_html: the anchors of the crawl
\* and one more whose relative href names the product of an absolute one
SearchCallPages ==
  SeqsUpTo(IdealoAnchors \cup {[text |-> T_Solix1, href |-> RelUrl("/preisvergleich/OffersOfProduct/2"),
                                parentText |-> T_From]},
           MaxItems)

\* listing pages for single calls of parse_products: the pages of the crawl
\* and one whose first card has no title element
ParseCallPages ==
  ListingPages \cup {<< [hasTitle |-> FALSE, title |-> << >>, href |-> "/p2"], CatalogBlocks[1] >>}

T_Euro == << "€" >>

\* texts of a price element: two prices, a text without digits, a bare currency sign
AmountTexts == {T_199, T_149, T_Sold, T_Euro}

\* detail pages for single calls of the enrichment: kleineskraftwerk pages
\* with a price block of up to two amounts, priwatt pages with or without
\* each of the two price elements
EnrichCallPages(c) ==
  IF c = "priwatt"
    THEN {[hasDiscount |-> FALSE, discountText |-> << >>, hasOriginal |-> FALSE, originalText |-> << >>]}
           \cup {[hasDiscount |-> TRUE, discountText |-> t, hasOriginal |-> FALSE, originalText |-> << >>] :
                   t \in AmountTexts}
           \cup {[hasDiscount |-> FALSE, discountText |-> << >>, hasOriginal |-> TRUE, originalText |-> t] :
                   t \in AmountTexts}
           \cup {[hasDiscount |-> TRUE, discountText |-> t, hasOriginal |-> TRUE, originalText |-> u] :
                   t \in AmountTexts, u \in AmountTexts}
    ELSE {[block |-> FALSE, amounts |-> << >>]}
           \cup {[block |-> TRUE, amounts |-> am] :
                   am \in SeqsUpTo({[wrap |-> w, text |-> t] : w \in {"del", "ins", "none"}, t \in AmountTexts}, 2)}

\* the part of enrich_product_with_detail after a fetch that returned a page
EnrichCallArgs ==
  UNION {{<< c, parse_products(c, << CatalogBlocks[1] >>, URLS[1])[1], html >> :
            html \in EnrichCallPages(c)} : c \in Catalog}

InitCalls ==
  /\ CrawlIdle
  /\ MainIdle
  /\ ret = << >>
  /\ returned = FALSE
  /\ \/ fn = "compute_discount_rate" /\ args \in Catalog \X RateTexts \X RateTexts
     \/ fn = "clean_merchant_name" /\ args \in {<< t >> : t \in MerchantTexts}
     \/ fn = "parse_detail_html" /\ args \in DetailCallArgs
     \/ fn = "parse_search_html" /\ args \in {<< html >> : html \in SearchCallPages}
     \/ fn = "parse_products" /\ args \in Catalog \X ParseCallPages \X {URLS[i] : i \in 1..NumUrls}
     \/ fn = "enrich_product_with_detail" /\ args \in EnrichCallArgs

CallComputeDiscountRate ==
  /\ fn = "compute_discount_rate"
  /\ ~returned
  /\ ret' = compute_discount_rate(args[1], args[2], args[3])
  /\ returned' = TRUE
  /\ UNCHANGED << fn, args, crawlVars, mainVars >>

CallCleanMerchantName ==
  /\ fn = "clean_merchant_name"
  /\ ~returned
  /\ ret' = clean_merchant_name(args[1])
  /\ returned' = TRUE
  /\ UNCHANGED << fn, args, crawlVars, mainVars >>

CallParseDetailHtml ==
  /\ fn = "parse_detail_html"
  /\ ~returned
  /\ ret' = parse_detail_html(args[1], args[2])
  /\ returned' = TRUE
  /\ UNCHANGED << fn, args, crawlVars, mainVars >>

CallParseSearchHtml ==
  /\ fn = "parse_search_html"
  /\ ~returned
  /\ ret' = parse_search_html(args[1])
  /\ returned' = TRUE
  /\ UNCHANGED << fn, args, crawlVars, mainVars >>

CallParseProducts ==
  /\ fn = "parse_products"
  /\ ~returned
  /\ ret' = parse_products(args[1], args[2], args[3])
  /\ returned' = TRUE
  /\ UNCHANGED << fn, args, crawlVars, mainVars >>

CallEnrichFromHtml ==
  /\ fn = "enrich_product_with_detail"
  /\ ~returned
  /\ ret' = EnrichFromHtml(args[1], args[2], args[3])
  /\ returned' = TRUE
  /\ UNCHANGED << fn, args, crawlVars, mainVars >>

CallsNext ==
  \/ CallComputeDiscountRate
  \/ CallCleanMerchantName
  \/ CallParseDetailHtml
  \/ CallParseSearchHtml
  \/ CallParseProducts
  \/ CallEnrichFromHtml

SpecCalls == InitCalls /\ [][CallsNext]_vars

(***************************************************************************)
(* Properties.                                                             *)
(***************************************************************************)
\* the records the listing stage of a catalog run produced, read off the
\* responses: listing URLs in configured order, parse order within a URL
Listed ==
  Flatten([i \in 1..NumUrls |->
             IF lstResp[i].kind = "page"
               THEN LET ps == parse_products(crawler, lstResp[i].page, URLS[i])
                    IN  [j \in 1..Len(ps) |-> [ps[j] EXCEPT !.source_url = URLS[i]]]
               ELSE << >>])

\* what the search page of one idealo response parses to
Parsed(resp) == IF resp.kind = "page" THEN parse_search_html(resp.page) ELSE << >>

FailedResp(resp) == resp.kind \in {"raise", "empty"}

P_199 == << "1", "9", "9", ".", "0", "0" >>

\* C1: in a catalog crawl the batch is never aborted by failing detail
\* fetches: the run does not end with an exception, it writes one row per
\* listed record; a record whose detail fetch raised or came back empty
\* is written with exactly its listing-stage fields (empty price fields),
\* and every record whose detail page arrived is written enriched from
\* that page.
C1_DetailFailureIsolated ==
  crawler \in Catalog =>
    /\ pc # "raised"
    /\ pc = "done" =>
         LET listed == Listed
         IN  /\ Len(all_products) = Len(listed)
             /\ \A k \in 1..Len(listed) :
                  IF FailedResp(detResp[k])
                    THEN /\ listed[k].original_price = << >>
                         /\ listed[k].discount_price = << >>
                         /\ \E r \in 1..Len(all_products) : all_products[r] = listed[k]
                    ELSE \E r \in 1..Len(all_products) :
                           all_products[r] = EnrichFromHtml(crawler, listed[k], detResp[k].page)

C1_Witness ==
  /\ crawler \in Catalog
  /\ pc = "done"
  /\ \E k \in 1..Len(detResp) : detResp[k].kind = "raise"
  /\ \E k \in 1..Len(detResp) : detResp[k].kind = "empty"
  /\ \E r \in 1..Len(all_products) : all_products[r].original_price = P_199
  /\ \E r \in 1..Len(all_products) : all_products[r].original_price = << >>

\* C2: in an idealo run whose listing stage yielded N records, a failing
\* detail fetch does not keep the run from writing N rows, and the row of
\* the failed record has empty price and merchant fields.
C2_IdealoDetailFailureKeepsRows ==
  (crawler = "idealo" /\ all_items # << >> /\ pc \in {"done", "raised"}) =>
    /\ pc = "done"
    /\ written
    /\ Len(all_products) = Len(all_items)
    /\ \A k \in 1..Len(all_items) :
         detResp[k].kind = "raise" =>
           all_products[k].preis_versand = << >> /\ all_products[k].merchant = << >>

\* C3: the rows of one catalog run have pairwise different detailUrl.
C3_NoDuplicateDetailUrl ==
  (crawler \in Catalog /\ pc = "done") =>
    \A i, j \in 1..Len(all_products) :
      i # j => all_products[i].detail_url # all_products[j].detail_url

\* C4: idealo fetches its listing page at most twice; the second fetch is
\* issued only after the first page parsed to zero records; a parse that
\* yields a record is the last listing fetch of the run.
C4_ListingFetchedAtMostTwice ==
  crawler = "idealo" =>
    /\ lstFetches[1] <= 2
    /\ lstFetches[1] = 2 =>
         Len(lstResp) >= 1 /\ lstResp[1].kind # "raise" /\ Parsed(lstResp[1]) = << >>
    /\ \A a \in 1..Len(lstResp) :
         Parsed(lstResp[a]) # << >> =>
           a = Len(lstResp) /\ lstFetches[1] = a /\ pc \in {"details", "done", "raised"}

C4_Witness ==
  /\ crawler = "idealo"
  /\ lstFetches[1] = 2
  /\ pc = "details"
  /\ Len(all_items) = 2

\* the first response to the fetches of listing URL i
FirstResp(i) == IF crawler \in Catalog THEN lstResp[i] ELSE lstResp[1]

ExpectedRows ==
  LET listed == Listed
  IN  [k \in 1..Len(listed) |->
         IF detResp[k].kind = "page"
           THEN EnrichFromHtml(crawler, listed[k], detResp[k].page)
           ELSE listed[k]]

\* C6: whatever the order in which the listing and detail fetches of a
\* catalog run return, the rows are the listed records in configured
\* listing-URL order and, within one URL, in parse order, each with the
\* result of its own detail fetch.
C6_OutputOrderDeterministic ==
  (crawler \in Catalog /\ pc = "done") => all_products = ExpectedRows

C6_Witness ==
  /\ crawler \in Catalog
  /\ pc = "done"
  /\ reordered
  /\ Len(all_products) = 3
  /\ all_products[1].source_url = all_products[2].source_url
  /\ all_products[2].source_url # all_products[3].source_url
  /\ all_products[1].title # all_products[2].title
  /\ \E k \in 1..3 : detResp[k].kind = "page"

\* C7: rows exist only once crawl() has passed both gathers, and then no
\* fetch task of the run, listing or detail, is still in flight.
C7_MergeAfterAllFetches ==
  /\ (all_products # << >> \/ written) => pc = "done"
  /\ pc = "done" =>
       /\ detDone = 1..Len(all_items)
       /\ crawler \in Catalog => lstDone = 1..NumUrls

C7_Witness ==
  /\ pc = "done"
  /\ written
  /\ reordered
  /\ Len(all_products) >= 2
  /\ detDone = 1..Len(all_items)

FailureOutcomes == {"import_error", "no_crawl", "raised"}

C8_Inv ==
  /\ mpc = "exited" =>
       /\ exit_code = 0 <=>
            /\ ~interrupted
            /\ Len(outcomes) = Len(selected_keys)
            /\ \A j \in 1..Len(outcomes) : outcomes[j] = "returned"
       /\ exit_code = 1 <=>
            ~interrupted /\ \E j \in 1..Len(outcomes) : outcomes[j] \in FailureOutcomes
       /\ exit_code = 130 <=> interrupted
  /\ interrupted =>
       /\ mpc = "exited"
       /\ summary = << >>
       /\ \A j \in 1..Len(run_results) :
            ~run_results[j].success => outcomes[j] \in FailureOutcomes

\* C8: the exit status is 0 exactly when every selected source succeeded,
\* 1 exactly when a source failed and there was no interrupt, 130 exactly
\* when the operator interrupted; after an interrupt no further source is
\* run, and no source is recorded as failed because of it.
C8_ExitStatus ==
  [](C8_Inv) /\ [][interrupted => UNCHANGED << outcomes, run_results, exit_code >>]_vars

C8_Witness ==
  /\ mpc = "exited"
  /\ interrupted
  /\ exit_code = 130
  /\ Len(selected_keys) = 3
  /\ Len(outcomes) = 1
  /\ outcomes[1] = "returned"

\* C9: every selected source is run, in selection order, whatever happened
\* to the sources before it; a source is reported as failed exactly when
\* its own import, its crawl lookup or its crawl failed.
C9_FailureIsolatedPerSource ==
  /\ Len(run_results) = Len(outcomes)
  /\ Len(outcomes) <= Len(selected_keys)
  /\ \A j \in 1..Len(run_results) :
       /\ run_results[j].name = CrawlerName(selected_keys[j])
       /\ run_results[j].success = (outcomes[j] \notin FailureOutcomes)
  /\ (mpc = "exited" /\ ~interrupted) =>
       Len(outcomes) = Len(selected_keys) /\ summary = run_results

C9_Witness ==
  /\ mpc = "exited"
  /\ ~interrupted
  /\ Len(selected_keys) = 3
  /\ outcomes = << "raised", "returned", "import_error" >>
  /\ summary = << [name |-> "idealo", success |-> FALSE],
                  [name |-> "kleineskraftwerk", success |-> TRUE],
                  [name |-> "priwatt", success |-> FALSE] >>

\* digits, one decimal point, exactly two fractional digits
CanonicalPrice(t) ==
  /\ Len(t) >= 4
  /\ t[Len(t) - 2] = "."
  /\ \A i \in (1..Len(t)) \ {Len(t) - 2} : IsDigit(t[i])

\* C10: in every row of a catalog run originalPrice and discountPrice are
\* each empty or a canonical two-decimal string.
C10_PricesCanonicalOrEmpty ==
  (crawler \in Catalog /\ pc = "done") =>
    \A r \in 1..Len(all_products) :
      /\ all_products[r].original_price = << >> \/ CanonicalPrice(all_products[r].original_price)
      /\ all_products[r].discount_price = << >> \/ CanonicalPrice(all_products[r].discount_price)

\* hundredths of a canonical two-decimal string
CanonicalCents(t) == DigitsToInt(Remove(t, "."))

P_149 == << "1", "4", "9", ".", "0", "0" >>

\* an optional minus sign, a canonical two-decimal number and a percent sign
WellFormedRate(r) ==
  /\ Len(r) >= 5
  /\ r[Len(r)] = "%"
  /\ CanonicalPrice(IF r[1] = "-" THEN SubSeq(r, 2, Len(r) - 1) ELSE SubSeq(r, 1, Len(r) - 1))

\* the number a well-formed rate stands for, in hundredths of a percent
RateHundredths(r) ==
  IF r[1] = "-" THEN 0 - CanonicalCents(SubSeq(r, 2, Len(r) - 1))
  ELSE CanonicalCents(SubSeq(r, 1, Len(r) - 1))

\* r is (o - d) / o * 100 rounded to two decimals, o and d in hundredths
IsRoundedRate(r, o, d) ==
  /\ WellFormedRate(r)
  /\ LET err == RateHundredths(r) * o - (o - d) * 10000
     IN  2 * (IF err < 0 THEN 0 - err ELSE err) <= o

\* what C11 says of the value returned for the arguments o and d
RateAsSpecified(r, o, d) ==
  IF ~CanonicalPrice(o) \/ ~CanonicalPrice(d) \/ CanonicalCents(o) <= 0
    THEN r = << >>
    ELSE /\ IsRoundedRate(r, CanonicalCents(o), CanonicalCents(d))
         /\ (o = P_199 /\ d = P_149) => r = << "2", "5", ".", "1", "3", "%" >>

\* C11 as claimed: compute_discount_rate returns the empty string when an
\* argument is no number or original <= 0, otherwise the rounded rate with
\* a percent sign, and the rate is non-empty only when both prices are
\* positive.
C11_RateOnlyForPositivePrices ==
  (fn = "compute_discount_rate" /\ returned) =>
    /\ RateAsSpecified(ret, args[2], args[3])
    /\ ret # << >> => CanonicalCents(args[2]) > 0 /\ CanonicalCents(args[3]) > 0

\* C11 as amended: compute_discount_rate returns the empty string exactly
\* when an argument is no number or original <= 0, and otherwise (a
\* discounted price of 0.00 included) the rate (original - discounted) /
\* original * 100 rounded to two decimals, followed by a percent sign.
C11_DiscountRate ==
  (fn = "compute_discount_rate" /\ returned) =>
    RateAsSpecified(ret, args[2], args[3])

C11_Witness ==
  /\ fn = "compute_discount_rate"
  /\ returned
  /\ args = << "kleineskraftwerk", P_199, P_149 >>
  /\ ret = << "2", "5", ".", "1", "3", "%" >>

\* C12: cleaning a cleaned merchant name changes nothing.
C12_CleanMerchantIdempotent ==
  (fn = "clean_merchant_name" /\ returned) => clean_merchant_name(ret) = ret


\* data-shop-name texts of the shape "www." + name + "-" + generic suffix +
\* "." + TLD, each with the lowercase name it carries
ShapedShopNames ==
  {[shop |-> T_Shop,       name |-> << "e", "x", "a", "m", "p", "l", "e" >>],
   [shop |-> T_ShopUpper,  name |-> << "e", "x", "a", "m", "p", "l", "e" >>],
   [shop |-> T_SolarStore, name |-> << "s", "o", "l", "a", "r" >>]}

\* C13: when the anchor chosen as the first offer's call-to-action carries a
\* data-shop-name of the shape "www." + name + "-" + generic suffix + "." + TLD,
\* in any letter case, the merchant of the record parse_detail_html returns is
\* the lowercase name alone ("www.Example-Shop.de" gives "example").
C13_ShopNameGivesBareName ==
  (fn = "parse_detail_html" /\ returned) =>
    \A s \in ShapedShopNames :
      LET cta == pick_cta_anchor(args[1].anchors)
      IN  (cta # 0 /\ args[1].anchors[cta].hasShop /\ args[1].anchors[cta].shop = s.shop)
            => ret.merchant = s.name


\* what the host of the unwrapped offer URL contributes for each href of
\* OfferHrefs: the bare name of an external host, nothing for no URL and for
\* a host of the comparison site's own domain family
HostMerchants ==
  {[href |-> EmptyUrl,                             merchant |-> << >>],
   [href |-> RelocateTo(AbsUrl(T_Cheap, "/buy")),  merchant |-> << "c", "h", "e", "a", "p", "g", "e", "a", "r" >>],
   [href |-> AbsUrl(T_WwwCheap, "/buy"),           merchant |-> << "c", "h", "e", "a", "p", "g", "e", "a", "r" >>],
   [href |-> RelUrl("/offer/1"),                   merchant |-> << >>],
   [href |-> AbsUrl(T_IdealoFr, "/offer/1"),       merchant |-> << >>]}

\* C14: the merchant of the record parse_detail_html returns is the first
\* non-empty of: the canonical form of the call-to-action's data-shop-name,
\* the canonical form of the name in the logo's alt text, the host of the
\* unwrapped offer URL; the host counts only when the first two give nothing,
\* gives "cheapgear" for cheapgear.com and nothing for a host of the idealo
\* domain family.
C14_MerchantFallbackChain ==
  (fn = "parse_detail_html" /\ returned /\ Len(args[1].anchors) = 1) =>
    LET page   == args[1]
        a      == page.anchors[1]
        byShop == IF a.hasShop THEN clean_merchant_name(StripWww(Lower(Strip(a.shop))))
                  ELSE << >>
        byLogo == IF page.hasLogo THEN clean_merchant_name(extract_merchant_from_alt(page.logoAlt))
                  ELSE << >>
        byHost == (CHOOSE h \in HostMerchants : h.href = a.href).merchant
    IN  ret.merchant = IF byShop # << >> THEN byShop
                       ELSE IF byLogo # << >> THEN byLogo
                       ELSE byHost

\* the host strategy decides: shop name and logo alt are there and give nothing
C14_Witness ==
  /\ fn = "parse_detail_html"
  /\ returned
  /\ Len(args[1].anchors) = 1
  /\ args[1].anchors[1].hasShop
  /\ args[1].anchors[1].shop = T_De
  /\ args[1].hasLogo
  /\ args[1].logoAlt = T_LogoGmbh
  /\ args[1].anchors[1].href = RelocateTo(AbsUrl(T_Cheap, "/buy"))
  /\ ret.merchant = << "c", "h", "e", "a", "p", "g", "e", "a", "r" >>


UsableAnchors(html) ==
  {i \in 1..Len(html) : Len(Strip(html[i].text)) >= 6 /\ html[i].href # EmptyUrl}

\* the usable anchors whose link no earlier usable anchor has
FirstOccurrences(html) ==
  {i \in UsableAnchors(html) :
     \A j \in UsableAnchors(html) : j < i => to_absolute(html[j].href) # to_absolute(html[i].href)}

\* C16: parse_search_html returns one record per detail link, in the order in
\* which the links first occur; each record carries the title and the price of
\* the first anchor with its link.
C16_FirstOccurrencePerLink ==
  (fn = "parse_search_html" /\ returned) =>
    LET html   == args[1]
        firsts == FirstOccurrences(html)
    IN  /\ Len(ret) = Cardinality(firsts)
        /\ \A k \in 1..Len(ret) : \A l \in 1..Len(ret) : ret[k].link = ret[l].link => k = l
        /\ \A i \in firsts :
             LET k == Cardinality({j \in firsts : j <= i})
                 own == parse_price_from_text(Strip(html[i].text))
             IN  /\ ret[k].link = to_absolute(html[i].href)
                 /\ ret[k].name = Strip(html[i].text)
                 /\ ret[k].price_from = IF own # << >> THEN own
                                        ELSE parse_price_from_text(Strip(html[i].parentText))

\* two anchors with the same href and different titles, then another link:
\* two records, the first with the first anchor's title
C16_Witness ==
  /\ fn = "parse_search_html"
  /\ returned
  /\ Len(args[1]) = 3
  /\ args[1][1].href = args[1][2].href
  /\ args[1][1].text = T_Solix1
  /\ args[1][2].text = T_Solix2
  /\ Len(ret) = 2
  /\ ret[1].name = T_Solix1


\* C17: every record a listing parse returns (idealo parse_search_html,
\* kleineskraftwerk parse_products, priwatt parse_products) has a non-empty
\* title and a non-empty detail URL; a block with an empty title text gives
\* no record.
C17_ListedRecordsHaveTitleAndUrl ==
  /\ (fn = "parse_products" /\ returned) =>
       \A k \in 1..Len(ret) : ret[k].title # << >> /\ ret[k].detail_url # ""
  /\ (fn = "parse_search_html" /\ returned) =>
       \A k \in 1..Len(ret) : ret[k].name # << >> /\ ret[k].link # EmptyUrl


\* C18: at the end of a catalog run every listed record whose detailUrl no
\* earlier listed record has is in the rows exactly once (a record being
\* identified by its detailUrl), whatever the detail fetches returned, and
\* the count the run reports is the number of rows written.
C18_FirstSeenRecordsOnce ==
  (crawler \in Catalog /\ pc = "done") =>
    LET listed == Listed
    IN  /\ \A i \in 1..Len(listed) :
             (\A j \in 1..(i - 1) : listed[j].detail_url # listed[i].detail_url) =>
               Cardinality({r \in 1..Len(all_products) :
                              all_products[r].detail_url = listed[i].detail_url}) = 1
        /\ total = IF written THEN Len(all_products) ELSE 0


\* the price a price text shows, as a canonical decimal
ShownPrices == {[text |-> T_199, price |-> P_199], [text |-> T_149, price |-> P_149]}

\* the texts of the price amounts of a detail page: kleineskraftwerk's
\* span.amount elements, priwatt's current and struck-through price elements
PageAmounts(c, html) ==
  IF c = "priwatt"
    THEN (IF html.hasDiscount THEN << html.discountText >> ELSE << >>)
           \o (IF html.hasOriginal THEN << html.originalText >> ELSE << >>)
    ELSE IF html.block THEN [i \in 1..Len(html.amounts) |-> html.amounts[i].text] ELSE << >>

\* C19: a catalog record enriched from a detail page with exactly one price
\* amount (current, struck-through or generic) has originalPrice and
\* discountPrice both set to that amount's value; after any enrichment from a
\* fetched page originalPrice is empty exactly when discountPrice is.
C19_SinglePriceFillsBoth ==
  (fn = "enrich_product_with_detail" /\ returned) =>
    LET am == PageAmounts(args[1], args[3])
    IN  /\ (ret.original_price = << >>) <=> (ret.discount_price = << >>)
        /\ Len(am) = 1 =>
             /\ ret.original_price = ret.discount_price
             /\ \A s \in ShownPrices :
                  am[1] = s.text => ret.original_price = s.price

\* a kleineskraftwerk page whose only amount is struck through
C19_Witness ==
  /\ fn = "enrich_product_with_detail"
  /\ returned
  /\ args[1] = "kleineskraftwerk"
  /\ args[3].block
  /\ args[3].amounts = << [wrap |-> "del", text |-> T_199] >>
  /\ ret.original_price = P_199
  /\ ret.discount_price = P_199

====
